---- MODULE Spec2Model ----
(***************************************************************************)
(* Model of pyscf/pbc/df/aft.py (AFTDF: density expansion on plane waves). *)
(*                                                                         *)
(* Three state machines share the module:                                  *)
(*   SpecLoop  the block generators pw_loop, ft_loop and loop(), driven by *)
(*             a consumer that pulls blocks and may copy them;             *)
(*   SpecNuc   get_nuc and get_pp, which consume ft_loop;                  *)
(*   SpecMf    update_mf on a heap of SCF objects.                         *)
(*                                                                         *)
(* Memory is counted in MB as the code does (max_memory); every quotient   *)
(* of the code is a float division followed by int(), which for the        *)
(* integer inputs used here equals the truncated integer quotient.         *)
(***************************************************************************)
EXTENDS Integers, Sequences, FiniteSets, TLC

VARIABLES call, gen, lp, cons, nuc, heap

vars == <<call, gen, lp, cons, nuc, heap>>

(***************************************************************************)
(* Bounds of the model.                                                    *)
(***************************************************************************)
MaxGs == 2
BigGs == 13
MaxKpts == 2
MaxObjs == 3
MaxNucGs == 1

(***************************************************************************)
(* Program constants.                                                      *)
(***************************************************************************)
MinBlk == 16
MaxBlk == 16384
\* max_memory*1e6*.75/16 per MB in pw_loop: 1e6*.75/16 = 46875
PwPointsPerMB == 46875
\* max_memory*.9e6/16 per MB in ft_loop: .9e6/16 = 56250
FtPointsPerMB == 56250
\* 1e6/16: the complex numbers one MB holds
ComplexPerMB == 62500
DefaultBlockdim == 240
NucMinMemory == 2000
PwDefaultMemory == 2000

None == <<>>

Max(a, b) == IF a >= b THEN a ELSE b

Min(a, b) == IF a <= b THEN a ELSE b

\* Python's int(n/d) for d > 0: truncation toward zero
PyInt(n, d) == IF n >= 0 THEN n \div d ELSE -((-n) \div d)

(***************************************************************************)
(* Inputs.                                                                 *)
(***************************************************************************)
\* cell.ao_loc_nr(): AO offset of each shell, one entry more than shells
Cells == { [ao_loc |-> <<0, 1, 2>>], [ao_loc |-> <<0, 600, 3600>>] }

Nbas(cell) == Len(cell.ao_loc) - 1

\* ao_loc[s] with Python's 0-based index
AoLoc(cell, s) == cell.ao_loc[s + 1]

\* the meshes gs: every small mesh, and one large enough for the grid to
\* exceed the block ceiling
GsSet ==
    { <<a, b, c>> : a \in 0..MaxGs, b \in 0..MaxGs, c \in 0..MaxGs }
    \cup { <<BigGs, BigGs, BigGs>> }

\* max_memory in MB
MemValues == {500, 2000, 4000}

\* self.blockdim, or a blksize passed to pw_loop
BlockDims == {20, DefaultBlockdim}

\* shell ranges (i0, i1, j0, j1) with non-empty ranges, or None
ShlsSlices(cell) ==
    { <<a, b, c, d>> : a \in 0..Nbas(cell), b \in 0..Nbas(cell),
                       c \in 0..Nbas(cell), d \in 0..Nbas(cell) }

ValidSlices(cell) ==
    { s \in ShlsSlices(cell) : s[1] < s[2] /\ s[3] < s[4] } \cup {None}

(***************************************************************************)
(* Grid size.                                                              *)
(***************************************************************************)
\* len(x) for x in Gvbase, from cell.get_Gv_weights(gs)
GvbaseLen(gs) == [i \in 1..3 |-> 2 * gs[i] + 1]

\* gxyz.shape[0]: rows of the cartesian product of the three axes
NGrid(gs) == GvbaseLen(gs)[1] * GvbaseLen(gs)[2] * GvbaseLen(gs)[3]

get_naoaux_NoSplit(gs) == (gs[1] * 2 + 1) * (gs[2] * 2 + 1) * (gs[3] * 2 + 1)

\* ngs = numpy.prod(gs*2+1); return ngs * 2
get_naoaux(gs) == ((gs[1] * 2 + 1) * (gs[2] * 2 + 1) * (gs[3] * 2 + 1)) * 2

(***************************************************************************)
(* Prologue of pw_loop and ft_loop.                                        *)
(***************************************************************************)
DefaultSlice(cell, shls_slice) ==
    IF shls_slice = None THEN <<0, Nbas(cell), 0, Nbas(cell)>> ELSE shls_slice

S2AssertOff(aosym, shls) == TRUE

\* assert(shls_slice[2] == 0) under aosym == 's2'
S2Assert(aosym, shls) == aosym = "s2" => shls[3] = 0

Nij(cell, aosym, shls) ==
    IF aosym = "s2"
    THEN LET i0 == AoLoc(cell, shls[1])
             i1 == AoLoc(cell, shls[2])
         IN  (i1 * (i1 + 1)) \div 2 - (i0 * (i0 + 1)) \div 2
    ELSE LET ni == AoLoc(cell, shls[2]) - AoLoc(cell, shls[1])
             nj == AoLoc(cell, shls[4]) - AoLoc(cell, shls[3])
         IN  ni * nj

PwBlksizeNoFloor(max_memory, nij) ==
    Min(PyInt(max_memory * PwPointsPerMB, nij), MaxBlk)

\* blksize = min(max(16, int(max_memory*1e6*.75/16/nij)), 16384)
PwBlksize(max_memory, nij) ==
    Min(Max(MinBlk, PyInt(max_memory * PwPointsPerMB, nij)), MaxBlk)

\* sublk = max(16, int(blksize//4))
PwSublk(blksize) == Max(MinBlk, blksize \div 4)

FtBlksizeOneKpt(max_memory, nij, nkpts, ngs) ==
    Min(Min(Max(MinBlk, PyInt(max_memory * FtPointsPerMB, nij)), ngs), MaxBlk)

\* blksize = max(16, int(max_memory*.9e6/(nij*nkpts*16)))
\* blksize = min(blksize, ngs, 16384)
FtBlksize(max_memory, nij, nkpts, ngs) ==
    Min(Min(Max(MinBlk, PyInt(max_memory * FtPointsPerMB, nij * nkpts)), ngs),
        MaxBlk)

(***************************************************************************)
(* lib.prange(start, stop, step) as an iterator: the item at position i    *)
(* is (i, min(i+step, stop)), the next position is i+step, and the         *)
(* iteration ends when the position reaches stop.                          *)
(***************************************************************************)
PrangeHas(i, stop) == i < stop

PrangeItem(i, stop, step) == <<i, Min(i + step, stop)>>

PrangeAdvance(i, step) == i + step

(***************************************************************************)
(* Buffers.  A buffer is described by the grid range whose data it holds   *)
(* (Unwritten at first); the data of a range is a function of the grid     *)
(* indices, so two buffers hold the same data iff they hold the same range.*)
(***************************************************************************)
\* numpy.empty(...): allocated, nothing written yet
Unwritten == [lo |-> -1, hi |-> -1]

\* ft_ao._ft_aopair_kpts(cell, Gv[p0:p1], ..., out=buf): buf now holds the
\* pair densities of grid points p0..p1-1
FtFill(buf, p0, p1) == [lo |-> p0, hi |-> p1]

PqkWriteNoOffset(buf, i0, i1) == [lo |-> buf.lo, hi |-> buf.lo + (i1 - i0)]

\* pqkR[:] = aoao[i0:i1].real.T ; pqkI[:] = aoao[i0:i1].imag.T
PqkWrite(buf, i0, i1) == [lo |-> buf.lo + i0, hi |-> buf.lo + i1]

PwYieldNoOffset(p0, i0, i1) == <<i0, i1>>

\* yield (pqkR, pqkI, p0+i0, p0+i1)
PwYield(p0, i0, i1) == <<p0 + i0, p0 + i1>>

(***************************************************************************)
(* The generator frame: pc is "start" before the first pull (a Python      *)
(* generator runs no code of its body until then), "yielded" while         *)
(* suspended at the yield, "done" when exhausted and "error" when the      *)
(* body raised.  "idle" means no generator exists.                         *)
(***************************************************************************)
NewGen ==
    [pc |-> "start", nij |-> 0, ngs |-> 0, blksize |-> 0, sublk |-> 0,
     p |-> 0, p0 |-> 0, p1 |-> 0, i |-> 0, i0 |-> 0, i1 |-> 0,
     buf |-> Unwritten, pqk |-> Unwritten, out |-> None]

IdleGen == [NewGen EXCEPT !.pc = "idle"]

\* one iteration of "for p0, p1 in self.prange(0, ngs, blksize)" in ft_loop
FtBlock(g, p) ==
    IF PrangeHas(p, g.ngs)
    THEN LET it == PrangeItem(p, g.ngs, g.blksize)
         IN  [g EXCEPT !.pc = "yielded", !.p = p, !.p0 = it[1], !.p1 = it[2],
                       !.buf = FtFill(g.buf, it[1], it[2]),
                       !.out = <<it[1], it[2]>>]
    ELSE [g EXCEPT !.pc = "done"]

\* ft_loop resumed by a pull: from the start through the prologue to the
\* first yield, or from a yield to the next one
FtResume(c, g) ==
    IF g.pc = "start"
    THEN LET shls == DefaultSlice(c.cell, c.shls_slice)
             ngs == NGrid(c.gs)
             nij == Nij(c.cell, c.aosym, shls)
         IN  IF ~S2Assert(c.aosym, shls)
             THEN [g EXCEPT !.pc = "error"]
             ELSE FtBlock([g EXCEPT !.nij = nij, !.ngs = ngs,
                             !.blksize = FtBlksize(c.max_memory, nij, c.nkpts, ngs),
                             !.sublk = FtBlksize(c.max_memory, nij, c.nkpts, ngs)],
                          0)
    ELSE FtBlock(g, PrangeAdvance(g.p, g.blksize))

\* one iteration of "for i0, i1 in lib.prange(0, p1-p0, sublk)" in pw_loop
PwInner(g, i) ==
    LET it == PrangeItem(i, g.p1 - g.p0, g.sublk)
    IN  [g EXCEPT !.pc = "yielded", !.i = i, !.i0 = it[1], !.i1 = it[2],
                  !.pqk = PqkWrite(g.buf, it[1], it[2]),
                  !.out = PwYield(g.p0, it[1], it[2])]

\* one iteration of "for p0, p1 in self.prange(0, ngs, blksize)" in pw_loop,
\* up to the first yield of its inner loop
PwOuter(g, p) ==
    IF PrangeHas(p, g.ngs)
    THEN LET it == PrangeItem(p, g.ngs, g.blksize)
         IN  PwInner([g EXCEPT !.p = p, !.p0 = it[1], !.p1 = it[2],
                                !.buf = FtFill(g.buf, it[1], it[2])], 0)
    ELSE [g EXCEPT !.pc = "done"]

PwResume(c, g) ==
    IF g.pc = "start"
    THEN LET shls == DefaultSlice(c.cell, c.shls_slice)
             ngs == NGrid(c.gs)
             nij == Nij(c.cell, c.aosym, shls)
             blksize == IF c.blksize = None THEN PwBlksize(c.max_memory, nij)
                        ELSE c.blksize[1]
             sublk == IF c.blksize = None THEN PwSublk(blksize) ELSE blksize
         IN  IF ~S2Assert(c.aosym, shls)
             THEN [g EXCEPT !.pc = "error"]
             ELSE PwOuter([g EXCEPT !.nij = nij, !.ngs = ngs,
                             !.blksize = blksize, !.sublk = sublk], 0)
    ELSE IF PrangeHas(PrangeAdvance(g.i, g.sublk), g.p1 - g.p0)
         THEN PwInner(g, PrangeAdvance(g.i, g.sublk))
         ELSE PwOuter(g, PrangeAdvance(g.p, g.blksize))

(***************************************************************************)
(* loop(): the generator over pw_loop(aosym='s2', blksize=self.blockdim).  *)
(***************************************************************************)
\* the arguments loop() passes to pw_loop; the rest are pw_loop's defaults
LoopPwCall(c) ==
    [c EXCEPT !.aosym = "s2", !.blksize = <<c.blockdim>>,
              !.shls_slice = None, !.max_memory = PwDefaultMemory]

\* Lpq = None
NoLpq == [lo |-> -1, hi |-> -1, part |-> "none"]

NewLoop == [pc |-> "start", Lpq |-> NoLpq, rows |-> 0]

IdleLoop == [NewLoop EXCEPT !.pc = "idle"]

\* Lpq = lib.transpose(pqkR, out=Lpq); yield Lpq
LoopYieldReal(l, g) ==
    [l EXCEPT !.pc = "yieldedR",
              !.Lpq = [lo |-> g.pqk.lo, hi |-> g.pqk.hi, part |-> "R"],
              !.rows = g.i1 - g.i0]

\* Lpq = lib.transpose(pqkI, out=Lpq); yield Lpq
LoopYieldImag(l, g) ==
    [l EXCEPT !.pc = "yieldedI",
              !.Lpq = [lo |-> g.pqk.lo, hi |-> g.pqk.hi, part |-> "I"],
              !.rows = g.i1 - g.i0]

\* loop() resumed by a pull; the result is <<loop frame, pw_loop frame>>
LoopResume(c, l, g) ==
    IF l.pc = "yieldedR"
    THEN <<LoopYieldImag(l, g), g>>
    ELSE LET g2 == PwResume(LoopPwCall(c), g)
         IN  IF g2.pc = "yielded" THEN <<LoopYieldReal(l, g2), g2>>
             ELSE <<[l EXCEPT !.pc = g2.pc], g2>>

(***************************************************************************)
(* The consumer of a generator: it pulls the next block, and between two   *)
(* pulls it may copy the block it was handed.  It keeps the reference to   *)
(* the block of the pull before (held), which aliases the generator's      *)
(* buffer.                                                                 *)
(***************************************************************************)
\* no block
NoBlock == [lo |-> -1, hi |-> -1, part |-> "none"]

NewCons ==
    [nyield |-> 0, prevEnd |-> 0, cur |-> NoBlock, nseen |-> 0, naux |-> 0,
     held |-> NoBlock, copied |-> NoBlock, copy |-> NoBlock]

\* the consumer's record after a pull that yielded the index range rng with
\* a block of the given part ("C" complex, "RI" a real and an imaginary
\* buffer, "R" or "I" one of the two)
Received(k, rng, part, rows) ==
    [k EXCEPT !.nyield = k.nyield + 1,
              !.prevEnd = IF k.cur = NoBlock THEN 0 ELSE k.cur.hi,
              !.cur = [lo |-> rng[1], hi |-> rng[2], part |-> part],
              !.nseen = k.nseen + (rng[2] - rng[1]),
              !.naux = k.naux + rows,
              !.held = k.cur]

\* the data the buffer of the yielded block holds now
BlockBuf ==
    IF call.fn = "ft" THEN [lo |-> gen.buf.lo, hi |-> gen.buf.hi, part |-> "C"]
    ELSE IF call.fn = "pw"
         THEN [lo |-> gen.pqk.lo, hi |-> gen.pqk.hi, part |-> "RI"]
         ELSE lp.Lpq

\* a call pw_loop(gs, shls_slice=s, max_memory=m, aosym=a, blksize=b)
PwCall(c, g, m, s, a, b) ==
    [fn |-> "pw", cell |-> c, gs |-> g, max_memory |-> m, shls_slice |-> s,
     aosym |-> a, nkpts |-> 1, blksize |-> b, blockdim |-> DefaultBlockdim]

\* a call ft_loop(gs, q, kpts, shls_slice=s, max_memory=m, aosym=a), len(kpts) = n
FtCall(c, g, m, s, a, n) ==
    [fn |-> "ft", cell |-> c, gs |-> g, max_memory |-> m, shls_slice |-> s,
     aosym |-> a, nkpts |-> n, blksize |-> None, blockdim |-> DefaultBlockdim]

\* a call loop() on an object with self.gs = g and self.blockdim = d
LoopCall(c, g, d) ==
    [fn |-> "loop", cell |-> c, gs |-> g, max_memory |-> PwDefaultMemory,
     shls_slice |-> None, aosym |-> "s2", nkpts |-> 1, blksize |-> None,
     blockdim |-> d]

\* no call of get_nuc / get_pp in progress
NoRet == [kind |-> "none", mats |-> <<>>]

NoArg == [shape |-> "unset", pts |-> <<>>]

IdleNuc ==
    [pc |-> "idle", fn |-> "none", inner |-> NoArg, kpts_lst |-> <<>>,
     vj |-> <<>>, vloc1 |-> NoRet, ret |-> NoRet,
     prevArg |-> NoArg, prevRet |-> NoRet]

EmptyHeap == <<>>

InitLoop ==
    /\ \E c \in Cells, g \in GsSet :
          \/ \E m \in MemValues, s \in ValidSlices(c), a \in {"s1", "s2"} :
                \/ \E b \in {None} \cup { <<d>> : d \in BlockDims } :
                      call = PwCall(c, g, m, s, a, b)
                \/ \E n \in 1..MaxKpts : call = FtCall(c, g, m, s, a, n)
          \/ \E d \in BlockDims : call = LoopCall(c, g, d)
    /\ gen = NewGen
    /\ lp = IF call.fn = "loop" THEN NewLoop ELSE IdleLoop
    /\ cons = NewCons
    /\ nuc = IdleNuc
    /\ heap = EmptyHeap

PwPull ==
    /\ call.fn = "pw"
    /\ gen.pc \in {"start", "yielded"}
    /\ gen' = PwResume(call, gen)
    /\ cons' = IF gen'.pc = "yielded"
               THEN Received(cons, gen'.out, "RI", 0) ELSE cons
    /\ UNCHANGED <<call, lp, nuc, heap>>

FtPull ==
    /\ call.fn = "ft"
    /\ gen.pc \in {"start", "yielded"}
    /\ gen' = FtResume(call, gen)
    /\ cons' = IF gen'.pc = "yielded"
               THEN Received(cons, gen'.out, "C", 0) ELSE cons
    /\ UNCHANGED <<call, lp, nuc, heap>>

LoopPull ==
    /\ call.fn = "loop"
    /\ lp.pc \in {"start", "yieldedR", "yieldedI"}
    /\ lp' = LoopResume(call, lp, gen)[1]
    /\ gen' = LoopResume(call, lp, gen)[2]
    /\ cons' = IF lp'.pc \in {"yieldedR", "yieldedI"}
               THEN Received(cons, gen'.out, lp'.Lpq.part, lp'.rows)
               ELSE cons
    /\ UNCHANGED <<call, nuc, heap>>

Yielded ==
    IF call.fn = "loop" THEN lp.pc \in {"yieldedR", "yieldedI"}
    ELSE gen.pc = "yielded"

\* the consumer copies the first block it was handed
Copy ==
    /\ Yielded
    /\ cons.nyield = 1
    /\ cons.copied = NoBlock
    /\ cons' = [cons EXCEPT !.copied = cons.cur, !.copy = BlockBuf]
    /\ UNCHANGED <<call, gen, lp, nuc, heap>>

NextLoop == PwPull \/ FtPull \/ LoopPull \/ Copy

SpecLoop == InitLoop /\ [][NextLoop]_vars

(***************************************************************************)
(* get_nuc and get_pp.                                                     *)
(*                                                                         *)
(* A complex number is a pair <<re, im>> of integers.  A k-point is a      *)
(* 3-vector of integers.  Of every AO matrix the leading 2 x 2 corner is   *)
(* tracked (the whole matrix when the cell has no more than two AOs);      *)
(* get_nuc and get_pp act on each AO pair separately.                      *)
(***************************************************************************)
CAdd(a, b) == <<a[1] + b[1], a[2] + b[2]>>

CMul(a, b) == <<a[1] * b[1] - a[2] * b[2], a[1] * b[2] + a[2] * b[1]>>

CConj(a) == <<a[1], -a[2]>>

Gamma == <<0, 0, 0>>

KptSet == { Gamma, <<1, 0, 1>> }

\* gamma_point(kpt): the k-point is all zero
gamma_point(kpt) == kpt[1] = 0 /\ kpt[2] = 0 /\ kpt[3] = 0

\* the kpts argument: None, one k-point of shape (3,), or a batch (n,3)
KptsArgs ==
    { [shape |-> "none", pts |-> <<>>] }
    \cup { [shape |-> "vec", pts |-> <<k>>] : k \in KptSet }
    \cup UNION { { [shape |-> "batch", pts |-> ks] : ks \in [1..n -> KptSet] } :
                 n \in 1..MaxKpts }

\* kpts_lst = numpy.zeros((1,3)) if kpts is None else numpy.reshape(kpts, (-1,3))
KptsLst(arg) == IF arg.shape = "none" THEN <<Gamma>> ELSE arg.pts

UnwrapSingleton(arg, mats) ==
    IF arg.shape = "none" \/ arg.shape = "vec" \/ Len(mats) = 1
    THEN [kind |-> "matrix", mats |-> <<mats[1]>>]
    ELSE [kind |-> "list", mats |-> mats]

\* if kpts is None or numpy.shape(kpts) == (3,): vj_kpts = vj_kpts[0]
Unwrap(arg, mats) ==
    IF arg.shape = "none" \/ arg.shape = "vec"
    THEN [kind |-> "matrix", mats |-> <<mats[1]>>]
    ELSE [kind |-> "list", mats |-> mats]

\* the other shapes in which the same list of k-points can be passed
SameKpts(arg) ==
    { a \in { [shape |-> "none", pts |-> <<>>],
              [shape |-> "vec", pts |-> KptsLst(arg)],
              [shape |-> "batch", pts |-> KptsLst(arg)] } :
        /\ a # arg
        /\ Len(KptsLst(arg)) = 1
        /\ a.shape = "none" => KptsLst(arg) = <<Gamma>> }

\* nao = cell.nao_nr(), and the tracked part of it
Nao(cell) == AoLoc(cell, Nbas(cell))

NObs(cell) == Min(Nao(cell), 2)

\* nao_pair = nao*(nao+1)//2, over the tracked AOs
NPairObs(cell) == (NObs(cell) * (NObs(cell) + 1)) \div 2

\* index in the packed lower triangle of AO pair (i, j), i >= j, 1-based
PackIdx(i, j) == ((i - 1) * i) \div 2 + j

KHash(kpt) == kpt[1] + 2 * kpt[2] + 4 * kpt[3]

\* ft_ao._ft_aopair_kpts: Fourier transform of AO pair x at grid point g
AoPair(df, kpt, g, x) ==
    <<((KHash(kpt) + g + x) % 3) - 1, ((2 * KHash(kpt) + g * x + 1) % 3) - 1>>

\* vG[g]: the reciprocal-space potential of the (model) nuclear density
VG(df, g) == <<(g % 2) + 1, ((g + df.eta) % 3) - 1>>

\* vj before the plane-wave loop: zeros when eta == 0, else the analytic
\* integrals of _int_nuc_vloc (with a residue in the imaginary part)
Vj0(df, kpt, x) ==
    IF df.eta = 0 THEN <<0, 0>>
    ELSE <<((x + KHash(kpt)) % 3) - 1,
           IF gamma_point(kpt) THEN 1 ELSE (x + KHash(kpt)) % 2>>

\* pseudo.pp_int.get_pp_loc_part2(cell, kpts_lst)[k], entry (i, j)
Vloc2(df, kpt, i, j) == <<i + 2 * j + KHash(kpt), (i - j) * (KHash(kpt) + 1)>>

\* pseudo.pp_int.get_pp_nl(cell, kpts_lst)[k], entry (i, j)
Vppnl(df, kpt, i, j) == <<3 * i * j - KHash(kpt), (j - i) * (1 + KHash(kpt))>>

\* The two contractions sum over the grid points of a block; the sum is
\* taken by halves.
RECURSIVE ContractReal(_, _, _, _, _, _)
\* numpy.einsum('k,kx->x', vG[p0:p1].real, aoao.real)
\*   + numpy.einsum('k,kx->x', vG[p0:p1].imag, aoao.imag), entry x,
\* where aoao holds the n grid points from b0 on
ContractReal(df, kpt, x, p0, b0, n) ==
    IF n <= 0 THEN 0
    ELSE IF n = 1
         THEN VG(df, p0)[1] * AoPair(df, kpt, b0, x)[1]
              + VG(df, p0)[2] * AoPair(df, kpt, b0, x)[2]
         ELSE ContractReal(df, kpt, x, p0, b0, n \div 2)
              + ContractReal(df, kpt, x, p0 + n \div 2, b0 + n \div 2,
                             n - n \div 2)

RECURSIVE ContractComplex(_, _, _, _, _, _)
\* numpy.einsum('k,kx->x', vG[p0:p1].conj(), aoao), entry x
ContractComplex(df, kpt, x, p0, b0, n) ==
    IF n <= 0 THEN <<0, 0>>
    ELSE IF n = 1
         THEN CMul(CConj(VG(df, p0)), AoPair(df, kpt, b0, x))
         ELSE CAdd(ContractComplex(df, kpt, x, p0, b0, n \div 2),
                   ContractComplex(df, kpt, x, p0 + n \div 2, b0 + n \div 2,
                                   n - n \div 2))

\* the body of the loop over k-points for one block (p0, p1) whose data is
\* in buffer buf: vj[k] += ...
NucAccumulate(df, kpts_lst, vj, p0, p1, buf) ==
    [k \in 1..Len(kpts_lst) |->
       [x \in 1..NPairObs(df.cell) |->
          IF gamma_point(kpts_lst[k])
          THEN CAdd(vj[k][x],
                    <<ContractReal(df, kpts_lst[k], x, p0, buf.lo, p1 - p0), 0>>)
          ELSE CAdd(vj[k][x],
                    ContractComplex(df, kpts_lst[k], x, p0, buf.lo, p1 - p0))]]

\* lib.unpack_tril: the packed lower triangle expanded to a square matrix,
\* the upper triangle filled with the conjugate of the lower one
unpack_tril(cell, tril) ==
    [i \in 1..NObs(cell) |->
       [j \in 1..NObs(cell) |->
          IF i >= j THEN tril[PackIdx(i, j)] ELSE CConj(tril[PackIdx(j, i)])]]

NucMatrixKeepImag(cell, kpt, vjk) ==
    [dtype |-> "complex", a |-> unpack_tril(cell, vjk)]

\* lib.unpack_tril(vj[k].real.copy()) at the Gamma point, else
\* lib.unpack_tril(vj[k])
NucMatrix(cell, kpt, vjk) ==
    IF gamma_point(kpt)
    THEN [dtype |-> "real",
          a |-> unpack_tril(cell, [x \in 1..Len(vjk) |-> <<vjk[x][1], 0>>])]
    ELSE [dtype |-> "complex", a |-> unpack_tril(cell, vjk)]

\* vj_kpts: one matrix per k-point of kpts_lst
NucMatrices(cell, kpts_lst, vj) ==
    [k \in 1..Len(kpts_lst) |-> NucMatrix(cell, kpts_lst[k], vj[k])]

PpSumNoLoc2(df, kpts_lst, vloc1) ==
    [k \in 1..Len(kpts_lst) |->
       [dtype |-> "complex",
        a |-> [i \in 1..NObs(df.cell) |-> [j \in 1..NObs(df.cell) |->
                 CAdd(Vppnl(df, kpts_lst[k], i, j), vloc1[k].a[i][j])]]]]

\* for k in range(nkpts): vpp[k] += vloc1[k] + vloc2[k]
PpSum(df, kpts_lst, vloc1) ==
    [k \in 1..Len(kpts_lst) |->
       [dtype |-> "complex",
        a |-> [i \in 1..NObs(df.cell) |-> [j \in 1..NObs(df.cell) |->
                 CAdd(Vppnl(df, kpts_lst[k], i, j),
                      CAdd(vloc1[k].a[i][j], Vloc2(df, kpts_lst[k], i, j)))]]]]

\* mydf.ft_loop(mydf.gs, kpt_allow, kpts_lst, max_memory=max_memory, aosym='s2')
\* with max_memory = max(2000, mydf.max_memory-lib.current_memory()[0])
NucFtCall(df, kpts_lst) ==
    FtCall(df.cell, df.gs, Max(NucMinMemory, df.avail), None, "s2", Len(kpts_lst))

NucGsSet ==
    { <<a, b, c>> : a \in 0..MaxNucGs, b \in 0..MaxNucGs, c \in 0..MaxNucGs }

\* mydf.max_memory - lib.current_memory()[0]
NucAvail == {0, 4000}

\* the k-points argument get_nuc itself receives: get_pp passes kpts_lst
InnerArg(fn, arg) ==
    IF fn = "get_pp" THEN [shape |-> "batch", pts |-> KptsLst(arg)] ELSE arg

InitNuc ==
    /\ \E c \in Cells, g \in NucGsSet, e \in {0, 1},
          av \in NucAvail, f \in {"get_nuc", "get_pp"}, arg \in KptsArgs :
          /\ call = [fn |-> f,
                     df |-> [cell |-> c, gs |-> g, eta |-> e, avail |-> av],
                     kpts |-> arg]
          /\ nuc = [IdleNuc EXCEPT !.pc = "called", !.fn = f]
    /\ gen = IdleGen
    /\ lp = IdleLoop
    /\ cons = NewCons
    /\ heap = EmptyHeap

\* get_nuc up to the plane-wave loop (for get_pp: its call of mydf.get_nuc)
NucEnter ==
    /\ nuc.pc = "called"
    /\ LET inner == InnerArg(nuc.fn, call.kpts)
           kpts_lst == KptsLst(inner)
       IN  nuc' = [nuc EXCEPT !.pc = "loop", !.inner = inner,
                              !.kpts_lst = kpts_lst,
                              !.vj = [k \in 1..Len(kpts_lst) |->
                                        [x \in 1..NPairObs(call.df.cell) |->
                                           Vj0(call.df, kpts_lst[k], x)]]]
    /\ gen' = NewGen
    /\ UNCHANGED <<call, lp, cons, heap>>

\* one iteration of "for aoaoks, p0, p1 in mydf.ft_loop(...)"
NucBlock ==
    /\ nuc.pc = "loop"
    /\ gen' = FtResume(NucFtCall(call.df, nuc.kpts_lst), gen)
    /\ gen'.pc = "yielded"
    /\ nuc' = [nuc EXCEPT !.vj = NucAccumulate(call.df, nuc.kpts_lst, nuc.vj,
                                               gen'.out[1], gen'.out[2], gen'.buf)]
    /\ cons' = Received(cons, gen'.out, "C", 0)
    /\ UNCHANGED <<call, lp, heap>>

\* the loop ends; get_nuc unpacks vj and returns
NucFinish ==
    /\ nuc.pc = "loop"
    /\ gen' = FtResume(NucFtCall(call.df, nuc.kpts_lst), gen)
    /\ gen'.pc = "done"
    /\ LET r == Unwrap(nuc.inner,
                       NucMatrices(call.df.cell, nuc.kpts_lst, nuc.vj))
       IN  nuc' = IF nuc.fn = "get_pp"
                  THEN [nuc EXCEPT !.pc = "nucdone", !.vloc1 = r]
                  ELSE [nuc EXCEPT !.pc = "returned", !.vloc1 = r, !.ret = r]
    /\ UNCHANGED <<call, lp, cons, heap>>

\* get_pp after its call of get_nuc: the sum and the return
PpAssemble ==
    /\ nuc.pc = "nucdone"
    /\ nuc' = [nuc EXCEPT !.pc = "returned",
                          !.ret = Unwrap(call.kpts,
                                         PpSum(call.df, KptsLst(call.kpts),
                                               nuc.vloc1.mats))]
    /\ UNCHANGED <<call, gen, lp, cons, heap>>

\* the caller calls the same function once more, on the same object, with
\* the same k-points passed in another shape
Recall ==
    /\ nuc.pc = "returned"
    /\ nuc.prevArg = NoArg
    /\ \E arg \in SameKpts(call.kpts) :
          /\ call' = [call EXCEPT !.kpts = arg]
          /\ nuc' = [IdleNuc EXCEPT !.pc = "called", !.fn = nuc.fn,
                                    !.prevArg = call.kpts, !.prevRet = nuc.ret]
    /\ gen' = IdleGen
    /\ cons' = NewCons
    /\ UNCHANGED <<lp, heap>>

NextNuc == NucEnter \/ NucBlock \/ NucFinish \/ PpAssemble \/ Recall

SpecNuc == InitNuc /\ [][NextNuc]_vars

(***************************************************************************)
(* update_mf.  The heap is the sequence of the SCF objects that exist; an  *)
(* object's identity is its index, its value the record of its attributes. *)
(***************************************************************************)
\* the density-fitting objects an SCF object may hold in with_df
DfObjects == {"aft1", "aft2"}

ScfObjects ==
    [with_df : {"none"} \cup DfObjects, conv_tol : {7, 9}, kpts : KptSet]

NoCall == [fn |-> "none", self |-> "none", mf |-> 0, ret |-> 0, before |-> <<>>]

UpdateMfInPlace(h, self, m) == <<[h EXCEPT ![m].with_df = self], m>>

\* mf = copy.copy(mf); mf.with_df = self; return mf
\* the result is <<heap, the object returned>>
update_mf(h, self, m) ==
    <<Append(h, [h[m] EXCEPT !.with_df = self]), Len(h) + 1>>

InitMf ==
    /\ \E o \in ScfObjects : heap = <<o>>
    /\ call = NoCall
    /\ gen = IdleGen
    /\ lp = IdleLoop
    /\ cons = NewCons
    /\ nuc = IdleNuc

UpdateMf ==
    /\ Len(heap) < MaxObjs
    /\ \E self \in DfObjects, m \in 1..Len(heap) :
          /\ heap' = update_mf(heap, self, m)[1]
          /\ call' = [fn |-> "update_mf", self |-> self, mf |-> m,
                      ret |-> update_mf(heap, self, m)[2], before |-> heap]
    /\ UNCHANGED <<gen, lp, cons, nuc>>

\* the user sets an attribute of an SCF object between two calls
Configure ==
    /\ \E m \in 1..Len(heap), v \in {7, 9} :
          /\ heap[m].conv_tol # v
          /\ heap' = [heap EXCEPT ![m].conv_tol = v]
    /\ call' = NoCall
    /\ UNCHANGED <<gen, lp, cons, nuc>>

NextMf == UpdateMf \/ Configure

SpecMf == InitMf /\ [][NextMf]_vars

(***************************************************************************)
(* Properties of the block generators (checked under SpecLoop).            *)
(***************************************************************************)
\* the prologue of pw_loop / ft_loop has run and computed the block size
Entered == call.fn \in {"pw", "ft"} /\ gen.pc \in {"yielded", "done"}

\* the block size was computed from the memory ceiling (not passed in)
Computed == Entered /\ (call.fn = "pw" => call.blksize = None)

\* C1 as claimed: the computed block size is at least 16, at most ngs and
\* at most 16384, in pw_loop and in ft_loop
C1_AsClaimed ==
    Computed =>
        /\ gen.blksize >= MinBlk
        /\ gen.blksize <= gen.ngs
        /\ gen.blksize <= MaxBlk

\* C1 amended: the computed block size never exceeds 16384; in ft_loop it is
\* at most ngs and at least min(16, ngs) (the grid cap is applied after the
\* floor); in pw_loop it is at least 16 and is not capped by ngs
C1_BlockSizeBounds ==
    Computed =>
        /\ gen.blksize <= MaxBlk
        /\ call.fn = "ft" =>
              /\ gen.blksize <= gen.ngs
              /\ gen.blksize >= Min(MinBlk, gen.ngs)
        /\ call.fn = "pw" => gen.blksize >= MinBlk

\* ft_loop on a grid larger than the ceiling: the ceiling decides the size
C1_Witness ==
    /\ call.fn = "ft" /\ gen.pc = "yielded"
    /\ gen.ngs > MaxBlk /\ gen.blksize = MaxBlk

\* the complex numbers of one block, and of the ceiling of max_memory MB
BlockComplex == gen.blksize * gen.nij * call.nkpts

CeilingComplex == call.max_memory * ComplexPerMB

BadS2 ==
    /\ call.aosym = "s2"
    /\ DefaultSlice(call.cell, call.shls_slice)[3] # 0

\* C5: pw_loop / ft_loop with aosym='s2' and shls_slice[2] # 0 fails at its
\* first pull and yields no block; with shls_slice[2] = 0 it does not fail
C5_S2NeedsZeroStart ==
    call.fn \in {"pw", "ft"} =>
        /\ (BadS2 /\ gen.pc # "start") => (gen.pc = "error" /\ cons.nyield = 0)
        /\ gen.pc = "error" => BadS2

C5_Witness == call.fn = "pw" /\ gen.pc = "error" /\ cons.nyield = 0

\* C6: loop() yields the real and then the imaginary factor matrix of every
\* sub-block, each with one row per grid point of the sub-block, and the
\* rows of a completed loop() sum to get_naoaux() = 2 * prod(2*gs_i + 1)
C6_LoopCoversNaoaux ==
    call.fn = "loop" =>
        /\ get_naoaux(call.gs) = 2 * NGrid(call.gs)
        /\ cons.naux <= get_naoaux(call.gs)
        /\ lp.pc = "yieldedR" =>
              /\ lp.Lpq.part = "R" /\ cons.nyield % 2 = 1
              /\ lp.rows = gen.out[2] - gen.out[1]
              /\ cons.naux = 2 * gen.out[1] + lp.rows
        /\ lp.pc = "yieldedI" =>
              /\ lp.Lpq.part = "I" /\ cons.nyield % 2 = 0
              /\ lp.rows = gen.out[2] - gen.out[1]
              /\ cons.held = [cons.cur EXCEPT !.part = "R"]
              /\ cons.naux = 2 * gen.out[2]
        /\ lp.pc = "done" => cons.naux = get_naoaux(call.gs)

\* loop() ran to completion over several sub-blocks
C6_Witness == call.fn = "loop" /\ lp.pc = "done" /\ cons.nyield > 2

\* the longest range the generator may yield
RangeLimit == IF call.fn = "ft" THEN gen.blksize ELSE gen.sublk

\* C9: the ranges yielded by ft_loop and pw_loop partition 0..ngs-1 in
\* order: the first starts at 0, each is non-empty, starts where the one
\* before ended and is no longer than the (sub-)block size, and the last
\* ends at ngs; the number of yields is at most ngs
C9_RangesPartitionGrid ==
    call.fn \in {"pw", "ft"} =>
        /\ cons.nyield <= gen.ngs
        /\ gen.pc = "yielded" =>
              /\ cons.cur.lo = gen.out[1] /\ cons.cur.hi = gen.out[2]
              /\ cons.nyield = 1 => cons.cur.lo = 0
              /\ cons.cur.lo = cons.prevEnd
              /\ cons.cur.lo < cons.cur.hi
              /\ cons.cur.hi - cons.cur.lo <= RangeLimit
              /\ cons.cur.hi <= gen.ngs
              /\ cons.nseen = cons.cur.hi
        /\ gen.pc = "done" =>
              /\ cons.nyield >= 1
              /\ cons.cur.hi = gen.ngs
              /\ cons.nseen = gen.ngs

\* pw_loop ran to completion over several blocks of several sub-blocks
C9_Witness ==
    /\ call.fn = "pw" /\ gen.pc = "done"
    /\ gen.blksize < gen.ngs /\ gen.sublk < gen.blksize
    /\ cons.nyield >= 4

\* a yielded block holds the data of the range it was yielded for
BlockIsCurrent ==
    Yielded =>
        /\ BlockBuf.lo = gen.out[1] /\ BlockBuf.hi = gen.out[2]
        /\ BlockBuf = cons.cur

\* a step that yields nothing leaves the generator's buffers alone; a pull
\* that yields puts the following block in the buffer, so the block of the
\* pull before is no longer there, while a copy taken of it is
PullOverwrites ==
    /\ cons'.nyield = cons.nyield =>
          (gen'.buf = gen.buf /\ gen'.pqk = gen.pqk /\ lp'.Lpq = lp.Lpq)
    /\ (cons'.nyield # cons.nyield /\ cons.cur # NoBlock) =>
          /\ BlockBuf' # cons.cur
          /\ cons'.held = cons.cur
          /\ IF call.fn = "loop" /\ cons.cur.part = "R"
             THEN BlockBuf' = [cons.cur EXCEPT !.part = "I"]
             ELSE BlockBuf'.lo = cons.cur.hi
    /\ cons.copied # NoBlock =>
          (cons'.copied = cons.copied /\ cons'.copy = cons.copied)

\* C10: every block is completely in the buffer when it is yielded, the
\* buffer is not modified until the next pull, and the next pull writes the
\* following block into it; a copy keeps the data
C10_BlockValidUntilNextPull ==
    [](BlockIsCurrent /\ (cons.copied # NoBlock => cons.copy = cons.copied))
    /\ [][PullOverwrites]_vars

\* a copied first block and a later block in the buffer
C10_Witness ==
    /\ Yielded /\ cons.nyield >= 2
    /\ cons.copied # NoBlock /\ cons.copy = cons.copied
    /\ BlockBuf # cons.copied

(***************************************************************************)
(* Properties of get_nuc and get_pp (checked under SpecNuc).               *)
(***************************************************************************)
\* C3: get_nuc and get_pp return a bare matrix for kpts None or of shape
\* (3,) and a list with one entry per k-point for a batch (n,3), n = 1
\* included; the same k-point passed in the other shape gives the same matrix
C3_UnwrapSingleKpt ==
    nuc.pc = "returned" =>
        /\ call.kpts.shape \in {"none", "vec"} =>
              (nuc.ret.kind = "matrix" /\ Len(nuc.ret.mats) = 1)
        /\ call.kpts.shape = "batch" =>
              (nuc.ret.kind = "list" /\ Len(nuc.ret.mats) = Len(call.kpts.pts))
        /\ nuc.prevArg # NoArg =>
              (KptsLst(nuc.prevArg) = KptsLst(call.kpts)
               /\ nuc.ret.mats[1] = nuc.prevRet.mats[1])

\* get_pp returned for a batch of one k-point what it returned bare for
\* the same k-point of shape (3,)
C3_Witness ==
    /\ nuc.pc = "returned" /\ nuc.fn = "get_pp"
    /\ nuc.prevArg.shape = "vec" /\ call.kpts.shape = "batch"
    /\ ~gamma_point(call.kpts.pts[1])
    /\ nuc.prevRet.kind = "matrix" /\ nuc.ret.kind = "list"

\* C4: the matrix get_pp returns for k-point k is the elementwise sum of
\* get_nuc's matrix, the local part-2 matrix and the non-local matrix of
\* that same k-point
C4_PpIsSumOfThree ==
    (nuc.fn = "get_pp" /\ nuc.pc = "returned") =>
        LET kl == KptsLst(call.kpts)
        IN  /\ Len(nuc.ret.mats) = Len(kl)
            /\ Len(nuc.vloc1.mats) = Len(kl)
            /\ \A k \in 1..Len(kl) :
                 \A i \in 1..NObs(call.df.cell), j \in 1..NObs(call.df.cell) :
                    nuc.ret.mats[k].a[i][j] =
                        CAdd(CAdd(nuc.vloc1.mats[k].a[i][j],
                                  Vloc2(call.df, kl[k], i, j)),
                             Vppnl(call.df, kl[k], i, j))

\* get_pp returned for two different k-points
C4_Witness ==
    /\ nuc.fn = "get_pp" /\ nuc.pc = "returned"
    /\ Len(nuc.ret.mats) = 2
    /\ call.kpts.pts[1] # call.kpts.pts[2]

\* the contraction over the whole grid, whatever the blocks
FullReal(kpt, x) == ContractReal(call.df, kpt, x, 0, 0, NGrid(call.df.gs))

FullComplex(kpt, x) == ContractComplex(call.df, kpt, x, 0, 0, NGrid(call.df.gs))

\* C7: for a Gamma k-point get_nuc accumulates real numbers only (the
\* imaginary part of vj[k] stays what it was), drops the imaginary part and
\* returns a real symmetric matrix; for any other k-point it returns the
\* complex matrix of the complex contraction, its upper triangle the
\* conjugate of the lower one
C7_GammaRealSymmetric ==
    /\ nuc.pc = "loop" =>
          \A k \in 1..Len(nuc.kpts_lst) :
             gamma_point(nuc.kpts_lst[k]) =>
                \A x \in 1..NPairObs(call.df.cell) :
                   nuc.vj[k][x][2] = Vj0(call.df, nuc.kpts_lst[k], x)[2]
    /\ nuc.pc \in {"nucdone", "returned"} =>
          \A k \in 1..Len(nuc.kpts_lst) :
             LET m == nuc.vloc1.mats[k]
                 kpt == nuc.kpts_lst[k]
                 n == NObs(call.df.cell)
             IN  IF gamma_point(kpt)
                 THEN /\ m.dtype = "real"
                      /\ \A i \in 1..n, j \in 1..n :
                            /\ m.a[i][j][2] = 0
                            /\ m.a[i][j] = m.a[j][i]
                            /\ i >= j =>
                                 m.a[i][j][1] =
                                    Vj0(call.df, kpt, PackIdx(i, j))[1]
                                    + FullReal(kpt, PackIdx(i, j))
                 ELSE /\ m.dtype = "complex"
                      /\ \A i \in 1..n, j \in 1..n :
                            /\ i >= j =>
                                 m.a[i][j] =
                                    CAdd(Vj0(call.df, kpt, PackIdx(i, j)),
                                         FullComplex(kpt, PackIdx(i, j)))
                            /\ i > j => m.a[j][i] = CConj(m.a[i][j])

\* get_nuc returned for a Gamma and another k-point after several blocks,
\* the analytic part carrying an imaginary residue at Gamma
C7_Witness ==
    /\ nuc.pc = "returned" /\ nuc.fn = "get_nuc"
    /\ cons.nyield >= 2
    /\ Len(nuc.kpts_lst) = 2
    /\ gamma_point(nuc.kpts_lst[1]) /\ ~gamma_point(nuc.kpts_lst[2])
    /\ Vj0(call.df, Gamma, 1)[2] # 0

(***************************************************************************)
(* Property of update_mf (checked under SpecMf).                           *)
(***************************************************************************)
\* C8: update_mf(mf) returns a new SCF object whose with_df is this AFTDF
\* object and whose other attributes equal those of mf; mf and every other
\* object that existed are unchanged
C8_UpdateMfCopies ==
    call.fn = "update_mf" =>
        /\ call.ret \in 1..Len(heap)
        /\ call.ret \notin 1..Len(call.before)
        /\ heap[call.ret].with_df = call.self
        /\ heap[call.ret].conv_tol = call.before[call.mf].conv_tol
        /\ heap[call.ret].kpts = call.before[call.mf].kpts
        /\ \A o \in 1..Len(call.before) : heap[o] = call.before[o]

\* update_mf on an SCF object that holds another density-fitting object
C8_Witness ==
    /\ call.fn = "update_mf"
    /\ heap[call.mf].with_df \in DfObjects
    /\ heap[call.mf].with_df # call.self
    /\ heap[call.ret].with_df = call.self

====
